---- MODULE Spec2Model ----
(***************************************************************************)
(* Model of the authentication core of the server (AuthService, the        *)
(* JwtStrategy guard and AuthExceptionFilter) over a users table.          *)
(*                                                                         *)
(* Strings that the code normalizes or measures (emails, passwords, names) *)
(* are tuples of one-character strings.  A signed JWT is the record of its *)
(* payload, its iat/exp (whole seconds) and the secret that signed it:     *)
(* HS256 signing is deterministic, so two tokens are the same string       *)
(* exactly when these records are equal.  The clock `now` counts ticks,    *)
(* TicksPerSec ticks to the second (Date has a finer grain than a JWT).    *)
(*                                                                         *)
(* Every request runs in a slot p \in Procs.  An action is the code of a   *)
(* handler from one database round trip up to the next one: the first      *)
(* action of a handler holds its synchronous validation and its first      *)
(* query, the last one its write and its return.                           *)
(*                                                                         *)
(* The browser is the client's useAuthStore with its cookies.  A store     *)
(* action is two steps: its first lines together with the arrival of its   *)
(* request at the server, and the lines after its await, which run when    *)
(* the answer of AuthController reaches the browser.                       *)
(***************************************************************************)
EXTENDS Integers, Sequences, FiniteSets, TLC

\* ---------------------------------------------------------------- bounds
MaxTime == 3
TicksPerSec == 2
MaxCalls == 5
MaxUnderWay == 2
RefreshTTLSec == 1
AccessTTLSec == 1

Procs == {"p1", "p2"}
Ids == {"u1", "u2"}

\* ------------------------------------------------------- string helpers
IsSpace(c) == c = " "

Lower(c) ==
  CASE c = "A" -> "a"
    [] c = "B" -> "b"
    [] OTHER -> c

toLowerCase(s) == [i \in 1..Len(s) |-> Lower(s[i])]

RECURSIVE TrimLeft(_)
TrimLeft(s) == IF s # <<>> /\ IsSpace(Head(s)) THEN TrimLeft(Tail(s)) ELSE s

RECURSIVE TrimRight(_)
TrimRight(s) ==
  IF s # <<>> /\ IsSpace(s[Len(s)]) THEN TrimRight(SubSeq(s, 1, Len(s) - 1)) ELSE s

trim(s) == TrimRight(TrimLeft(s))

includes(s, c) == \E i \in 1..Len(s) : s[i] = c

\* the email is lowercased and not trimmed
normalizedEmail_lowerOnly(email) == toLowerCase(email)

\* email.toLowerCase().trim()
normalizedEmail(email) == trim(toLowerCase(email))

\* ------------------------------------------------------------- inputs
EmailAb == <<"a", "@", "b">>
EmailAbVariant == <<" ", "A", "@", "B">>
EmailCd == <<"c", "@", "d">>
EmailShort == <<"a", " ">>

PwGood == <<"p", "a", "s", "s", "w", "o", "r", "d">>
PwOther == <<"P", "a", "s", "s", "w", "o", "r", "d">>
PwShort == <<"p", "w">>

NameAl == <<"A", "l">>
NameBo == <<" ", "B", "o", " ">>
NameOneLetter == <<" ", "B", " ">>

\* a field absent from a request body (undefined)
Undefined == <<"undefined">>

\* the request bodies tried: <<email, password, name>> for register,
\* <<email, password>> for login, [email, name] for updateUser
RegisterDtos ==
  {<<EmailAb, PwGood, NameAl>>, <<EmailAbVariant, PwGood, NameAl>>,
   <<EmailShort, PwGood, NameAl>>, <<EmailAb, PwShort, NameAl>>}
LoginDtos ==
  {<<EmailAb, PwGood>>, <<EmailAbVariant, PwGood>>, <<EmailAb, PwOther>>,
   <<EmailCd, PwGood>>}
UpdateUserDtos ==
  {[email |-> EmailCd, name |-> Undefined], [email |-> EmailAbVariant, name |-> Undefined],
   [email |-> Undefined, name |-> NameBo], [email |-> Undefined, name |-> NameOneLetter],
   [email |-> EmailCd, name |-> NameOneLetter], [email |-> Undefined, name |-> Undefined]}

\* ------------------------------------------------------------- bcrypt
\* bcrypt.hash(password, 10): the salt plays no part in compare
bcryptHash(password) == [alg |-> "2b", of |-> password]

\* '$2b$10$dummyhashforsecurity' is not a hash of any password
DummyHash == [alg |-> "dummy", of |-> <<>>]

bcryptCompare(password, hash) == hash.alg = "2b" /\ hash.of = password

\* -------------------------------------------------------------- tokens
NullToken == [sub |-> "", email |-> <<>>, type |-> "", iat |-> 0, exp |-> 0, key |-> ""]
\* a string that is not a JWT signed by any secret of the server
GarbageToken == [sub |-> "", email |-> <<>>, type |-> "", iat |-> 0, exp |-> 0, key |-> "garbage"]
NullDate == -1

Sec(t) == t \div TicksPerSec

\* jwt.sign(payload, secret, {expiresIn}): iat and exp in whole seconds
sign(payload, secret, ttl, t) ==
  [payload EXCEPT !.iat = Sec(t), !.exp = Sec(t) + ttl, !.key = secret]

\* the number a duration string starts with (parseInt, and the number `ms` reads)
parseInt(str) ==
  CASE Head(str) = "7" -> 7
    [] OTHER -> 0

\* the time scale: seven days last RefreshTTLSec seconds of the model
Days(n) == (n * RefreshTTLSec) \div 7

\* jsonwebtoken's reading of expiresIn (the ms package): <N>d are days, <N>h
\* hours, <N>w weeks
ms(str) ==
  CASE includes(str, "d") -> Days(parseInt(str))
    [] includes(str, "w") -> Days(7 * parseInt(str))
    [] OTHER -> 0

\* the values of JWT_REFRESH_EXPIRES_IN tried: the default and a duration in
\* a unit that calculateRefreshTokenExpiry does not know
SevenDays == <<"7", "d">>
SevenWeeks == <<"7", "w">>

\* jwt.verify: signature first, then expiry (clockTimestamp >= exp)
verify(token, secret, t) ==
  IF token.key # secret THEN "JsonWebTokenError"
  ELSE IF Sec(t) >= token.exp THEN "TokenExpiredError"
  ELSE "ok"

\* --------------------------------------------------------- user entity
\* the columns of the users table (createdAt plays no part and is left out)
User(id, email, password, name, refreshToken, refreshTokenExpiresAt) ==
  [id |-> id, email |-> email, password |-> password, name |-> name,
   refreshToken |-> refreshToken, refreshTokenExpiresAt |-> refreshTokenExpiresAt]

NoUser == User("", <<>>, [alg |-> "", of |-> <<>>], <<>>, NullToken, NullDate)

\* const { a: _, b: __, ...rest } = obj
Omit(obj, keys) == [k \in (DOMAIN obj) \ keys |-> obj[k]]

NoUserOut == [absent |-> TRUE]

\* ---------------------------------------------------- results, errors
Result(kind, message, user, access_token, refresh_token) ==
  [kind |-> kind, message |-> message, user |-> user,
   access_token |-> access_token, refresh_token |-> refresh_token]

NoResult == Result("none", "", NoUserOut, NullToken, NullToken)

Exception(kind, message) == Result(kind, message, NoUserOut, NullToken, NullToken)
BadRequestException(message) == Exception("BadRequest", message)
UnauthorizedException(message) == Exception("Unauthorized", message)
ConflictException(message) == Exception("Conflict", message)
InternalServerErrorException(message) == Exception("InternalServerError", message)

StatusOf(kind) ==
  CASE kind = "BadRequest" -> 400
    [] kind = "Unauthorized" -> 401
    [] kind = "Conflict" -> 409
    [] kind = "InternalServerError" -> 500
    [] OTHER -> 200

\* AuthExceptionFilter.catch: what the caller receives for a thrown
\* HttpException (status, error name and the exception's own message)
AuthExceptionFilter(exception) ==
  [statusCode |-> StatusOf(exception.kind),
   error |-> exception.kind,
   message |-> exception.message]

\* ------------------------------------------------------------- state
VARIABLES
  users,      \* the rows of the users table
  now,        \* the clock, in ticks
  secrets,    \* the configuration: [access |-> JWT_SECRET, refresh |->
              \* JWT_REFRESH_SECRET, refreshExpiresIn |-> JWT_REFRESH_EXPIRES_IN]
  pc,         \* pc[p]: where the request in slot p stands
  loc,        \* loc[p]: the locals of the request in slot p
  result,     \* result[p]: what the last request of slot p returned or threw
  calls,      \* number of requests started
  issued,     \* tokens handed out: [access |-> set, refresh |-> set]
  spent,      \* refresh tokens that a successful refresh has exchanged
  revoked,    \* refresh tokens that were stored when a logout cleared them
  racing,     \* racing[p]: slots whose current request overlaps p's
  store,      \* the state of the client's useAuthStore
  cookies,    \* the cookies the browser holds for the server
  inbox,      \* answers of the server on their way to the browser
  promise     \* the promise of the store action that settled last

vars == <<users, now, secrets, pc, loc, result, calls, issued, spent, revoked, racing,
          store, cookies, inbox, promise>>

\* the browser: the store, its cookies, the answers under way to it
client == <<store, cookies, inbox, promise>>

\* error: null
NoError == 0

\* create<AuthState>()(...): the store before any action
InitialStore ==
  [user |-> NoUserOut, isAuthenticated |-> FALSE, isLoading |-> FALSE, error |-> NoError]

NoCookies == [access_token |-> NullToken, refresh_token |-> NullToken]
NoPromise == [action |-> "", state |-> "none"]

\* a browser that has not been to the server yet
InitClient ==
  /\ store = InitialStore
  /\ cookies = NoCookies
  /\ inbox = {}
  /\ promise = NoPromise

IdleLoc ==
  [op |-> "", email |-> <<>>, token |-> NullToken, userId |-> "", user |-> NoUser,
   dto |-> [email |-> Undefined, name |-> Undefined],
   pending |-> NoResult, valid |-> FALSE, wasSpent |-> FALSE,
   wasRevoked |-> FALSE, expiredOf |-> "", reason |-> "", free |-> FALSE,
   compared |-> ""]

Init ==
  /\ users = {}
  /\ now = 0
  /\ secrets \in {[access |-> "k1", refresh |-> "k2", refreshExpiresIn |-> SevenDays,
                   zone |-> "UTC"],
                  [access |-> "k1", refresh |-> "k1", refreshExpiresIn |-> SevenDays,
                   zone |-> "UTC"],
                  [access |-> "k1", refresh |-> "k2", refreshExpiresIn |-> SevenWeeks,
                   zone |-> "UTC"]}
  /\ pc = [p \in Procs |-> "idle"]
  /\ loc = [p \in Procs |-> IdleLoc]
  /\ result = [p \in Procs |-> NoResult]
  /\ calls = 0
  /\ issued = [access |-> {}, refresh |-> {}]
  /\ spent = {}
  /\ revoked = {}
  /\ racing = [p \in Procs |-> {}]
  /\ InitClient

\* what a request was asked, for the properties: the email as the claims
\* compare it (trimmed, then lowercased) and whether a row holds it
TrimLower(email) == toLowerCase(trim(email))
EmailHeld(email) == \E u \in users : TrimLower(u.email) = TrimLower(email)
ValidRegistration(email, password, name) ==
  Len(TrimLower(email)) >= 3 /\ Len(password) >= 8 /\ Len(trim(name)) >= 2

Ready(p) == pc[p] \in {"idle", "done"}
InFlight(p) == ~Ready(p)

\* ---------------------------------------------------- repository
\* userRepository.findOne({ where: { <column>: value } })
findByEmail(email) == {u \in users : u.email = email}
findByRefreshToken(token) == {u \in users : u.refreshToken = token}
findOneById(id) == {u \in users : u.id = id}

\* userRepository.save(entity) of a loaded entity: the row becomes the entity
saveRow(entity) == {u \in users : u.id # entity.id} \cup {entity}

\* the email column has no unique constraint
UniqueViolation_never(entity) == FALSE

\* @Column({ unique: true }) email: the write of a row is refused when
\* another row holds the email (an insert, whose entity has no id yet, is
\* refused when any row does)
UniqueViolation(entity) == \E u \in users : u.id # entity.id /\ u.email = entity.email

\* @PrimaryGeneratedColumn('uuid'): an id no row has
NewId == IF findOneById("u1") = {} THEN "u1" ELSE CHOOSE id \in Ids : findOneById(id) = {}

\* --------------------------------------------------- token issuing
\* the access payload carries the subject alone
AccessPayload_noEmail(user) == [NullToken EXCEPT !.sub = user.id]

\* const payload = { email: user.email, sub: user.id }
AccessPayload(user) == [NullToken EXCEPT !.sub = user.id, !.email = user.email]
\* the refresh payload carries no type
RefreshPayload_untyped(user) == [NullToken EXCEPT !.sub = user.id]

\* const refreshPayload = { sub: user.id, type: 'refresh' }
RefreshPayload(user) == [NullToken EXCEPT !.sub = user.id, !.type = "refresh"]

\* both tokens are signed from the refresh payload by the refresh signer
generateTokens_oneSigner(user, t) ==
  [access_token |-> sign(RefreshPayload(user), secrets.refresh, ms(secrets.refreshExpiresIn), t),
   refresh_token |-> sign(RefreshPayload(user), secrets.refresh, ms(secrets.refreshExpiresIn), t)]

\* AuthService.generateTokens at time t
generateTokens(user, t) ==
  [access_token |-> sign(AccessPayload(user), secrets.access, AccessTTLSec, t),
   refresh_token |-> sign(RefreshPayload(user), secrets.refresh, ms(secrets.refreshExpiresIn), t)]

\* The local time of the server: in the zone "DST" the clocks go forward by
\* an hour at SpringForwardAt. An hour is shorter than a tick; it is modelled
\* as one tick, the shortest span the clock of the model shows.
SpringForwardAt == 2
Hour == 1
utcOffset(t) == IF secrets.zone = "DST" /\ t >= SpringForwardAt THEN Hour ELSE 0

\* expiresAt.setDate(expiresAt.getDate() + days) on the instant t: the same
\* local time of day, days later, which is an hour less of elapsed time when
\* the clocks went forward in between
setDate(t, days) ==
  LET sameElapsed == t + Days(days) * TicksPerSec
  IN sameElapsed - (utcOffset(sameElapsed) - utcOffset(t))

\* AuthService.calculateRefreshTokenExpiry at time t: new Date() moved forward
\* by the days of a value with a 'd' in it, by seven days for a value with
\* neither 'd' nor 'h' (no value tried has an 'h')
calculateRefreshTokenExpiry(t) ==
  IF includes(secrets.refreshExpiresIn, "d")
  THEN setDate(t, parseInt(secrets.refreshExpiresIn))
  ELSE setDate(t, 7)

\* ---------------------------------------------------- bookkeeping
\* Slot p may take the next request: a request that starts while nothing is
\* in flight always takes p1, so p2 only ever holds a request that started
\* while p1's was in flight (the two slots are interchangeable).
Free(p) == Ready(p) /\ (p = "p1" \/ InFlight("p1"))

\* a finished request is forgotten when a request starts in the other slot
Forget(q, p, f, idle) == IF q # p /\ Ready(q) THEN idle ELSE f[q]

\* the pc, loc and result of the slots when slot p goes to label with locals
\* l and result r
Slots(p, label, l, r) ==
  /\ pc' = [q \in Procs |-> IF q = p THEN label ELSE Forget(q, p, pc, "idle")]
  /\ loc' = [q \in Procs |-> IF q = p THEN l ELSE Forget(q, p, loc, IdleLoc)]
  /\ result' = [q \in Procs |-> IF q = p THEN r ELSE Forget(q, p, result, NoResult)]

\* slot p starts a request: it overlaps the requests now in flight
Begin(p) ==
  /\ Free(p)
  /\ calls < MaxCalls
  /\ calls' = calls + 1
  /\ racing' = [q \in Procs |->
                  IF q = p THEN {r \in Procs \ {p} : InFlight(r)}
                  ELSE IF InFlight(q) THEN racing[q] \cup {p}
                  ELSE {}]

\* the request of slot p ends with result r
Return(p, l, r) ==
  IF Ready(p)
  THEN Slots(p, "done", [l EXCEPT !.user = NoUser, !.pending = NoResult, !.dto = IdleLoc.dto], r)
  ELSE /\ pc' = [pc EXCEPT ![p] = "done"]
       /\ loc' = [loc EXCEPT ![p] = [l EXCEPT !.user = NoUser, !.pending = NoResult,
                                              !.dto = IdleLoc.dto]]
       /\ result' = [result EXCEPT ![p] = r]

\* the request of slot p goes on to its next database round trip
Goto(p, l, label) ==
  IF Ready(p)
  THEN Slots(p, label, l, NoResult)
  ELSE /\ pc' = [pc EXCEPT ![p] = label]
       /\ loc' = [loc EXCEPT ![p] = l]
       /\ result' = [result EXCEPT ![p] = NoResult]

\* some token has been generated: nothing reads the clock before that
ClockRead ==
  \/ issued.refresh # {}
  \/ \E p \in Procs : loc[p].pending.refresh_token # NullToken

Tick ==
  /\ ClockRead
  /\ now < MaxTime
  /\ now' = now + 1
  /\ UNCHANGED <<users, secrets, pc, loc, result, calls, issued, spent, revoked, racing>>

\* ------------------------------------------------ AuthService.register
\* the message of the driver's error for a write that breaks the unique
\* constraint on users.email (PostgreSQL), as a list of words
UniqueConstraintError == <<"duplicate", "key", "value", "violates", "unique", "constraint">>

\* the catch looks for a word the driver's message does not have
registerSaveFailed_otherWord(message) ==
  IF includes(message, "UNIQUE")
  THEN ConflictException("User with this email already exists")
  ELSE InternalServerErrorException("Failed to create user")

\* the catch around userRepository.save in register
registerSaveFailed(message) ==
  IF includes(message, "unique")
  THEN ConflictException("User with this email already exists")
  ELSE InternalServerErrorException("Failed to create user")

\* validation, normalisation, the existence check and the hashing
register(p, email, password, name) ==
  /\ Begin(p)
  /\ LET e == normalizedEmail(email)
         l == [IdleLoc EXCEPT !.op = "register", !.email = email,
                              !.valid = ValidRegistration(email, password, name),
                              !.free = ~EmailHeld(email),
                              !.reason = IF Len(password) < 8 THEN "ShortPassword"
                                         ELSE IF Len(trim(name)) < 2 THEN "ShortName"
                                         ELSE ""]
     IN
       IF email = <<>> \/ password = <<>> \/ name = <<>>
       THEN Return(p, l, BadRequestException("Email, password, and name are required"))
       ELSE IF e = <<>> \/ Len(e) < 3
       THEN Return(p, l, BadRequestException("Invalid email format"))
       ELSE IF findByEmail(e) # {}
       THEN Return(p, l, ConflictException("User with this email already exists"))
       ELSE IF Len(password) < 8
       THEN Return(p, l, BadRequestException("Password must be at least 8 characters long"))
       ELSE Goto(p, [l EXCEPT !.user = User("", e, bcryptHash(password), trim(name),
                                            NullToken, NullDate)],
                 "registerSave")
  /\ UNCHANGED <<users, now, secrets, issued, spent, revoked>>

\* userRepository.save(user) of the new entity and the return
registerSave(p) ==
  /\ pc[p] = "registerSave"
  /\ LET entity == loc[p].user
         \* the object made by create() with the generated id merged in
         savedUser == [id |-> NewId, email |-> entity.email,
                       password |-> entity.password, name |-> entity.name]
     IN
       IF UniqueViolation(entity)
       THEN /\ users' = users
            /\ Return(p, loc[p], registerSaveFailed(UniqueConstraintError))
       ELSE /\ users' = users \cup {[entity EXCEPT !.id = NewId]}
            /\ Return(p, loc[p],
                      Result("ok", "", Omit(savedUser, {"password"}), NullToken, NullToken))
  /\ UNCHANGED <<now, secrets, calls, issued, spent, revoked, racing>>

\* -------------------------------------------- AuthService.validateUser
\* validateUser returns null for every failure
ValidateUserNull == Result("null", "", NoUserOut, NullToken, NullToken)

\* --------------------------------------------------- AuthService.login
\* the not-found path says that the user does not exist
loginUserNotFound_distinct == UnauthorizedException("User not found")

\* the failure thrown when no user has the email (after the dummy compare)
loginUserNotFound == UnauthorizedException("Invalid email or password")

\* the not-found path returns without a comparison
notFoundCompare_skipped(password) == [ran |-> "", matched |-> FALSE]

\* await bcrypt.compare(password, '$2b$10$dummyhashforsecurity') on the
\* not-found path: the comparison that ran and what it gave
notFoundCompare(password) ==
  [ran |-> "dummy", matched |-> bcryptCompare(password, DummyHash)]

\* the credentials are those of a row (email compared trimmed and lowercased)
CredentialsHeld(email, password) ==
  \E u \in users : u.email = TrimLower(email) /\ bcryptCompare(password, u.password)

\* the failure thrown when the password does not match
loginPasswordInvalid == UnauthorizedException("Invalid email or password")

\* validation, the lookup, the password check and the token generation
login(p, email, password) ==
  /\ Begin(p)
  /\ LET e == normalizedEmail(email)
         l == [IdleLoc EXCEPT !.op = "login", !.email = email,
                              !.valid = CredentialsHeld(email, password)]
     IN
       IF email = <<>> \/ password = <<>>
       THEN Return(p, l, BadRequestException("Email and password are required"))
       ELSE IF findByEmail(e) = {}
       THEN Return(p, [l EXCEPT !.reason = "NoUser",
                                !.compared = notFoundCompare(password).ran],
                   loginUserNotFound)
       ELSE \E user \in findByEmail(e) :
              IF ~bcryptCompare(password, user.password)
              THEN Return(p, [l EXCEPT !.reason = "WrongPassword", !.compared = "stored"],
                          loginPasswordInvalid)
              ELSE LET tokens == generateTokens(user, now)
                       loaded == [user EXCEPT
                                    !.refreshToken = tokens.refresh_token,
                                    !.refreshTokenExpiresAt = calculateRefreshTokenExpiry(now)]
                   IN Goto(p, [l EXCEPT !.user = loaded, !.compared = "stored",
                                        !.pending = Result("ok", "",
                                                      Omit(loaded, {"password", "refreshToken"}),
                                                      tokens.access_token, tokens.refresh_token)],
                           "loginSave")
  /\ UNCHANGED <<users, now, secrets, issued, spent, revoked>>

\* AuthService.validateUser: the lookup and the password check; the user
\* without its password, or null
validateUser(p, email, password) ==
  /\ Begin(p)
  /\ LET e == normalizedEmail(email)
         l == [IdleLoc EXCEPT !.op = "validateUser", !.email = email,
                              !.valid = CredentialsHeld(email, password)]
     IN
       IF email = <<>> \/ password = <<>>
       THEN Return(p, l, ValidateUserNull)
       ELSE IF findByEmail(e) = {}
       THEN Return(p, [l EXCEPT !.reason = "NoUser",
                                !.compared = notFoundCompare(password).ran],
                   ValidateUserNull)
       ELSE \E user \in findByEmail(e) :
              IF ~bcryptCompare(password, user.password)
              THEN Return(p, [l EXCEPT !.reason = "WrongPassword", !.compared = "stored"],
                          ValidateUserNull)
              ELSE Return(p, [l EXCEPT !.compared = "stored"],
                          Result("ok", "", Omit(user, {"password"}), NullToken, NullToken))
  /\ UNCHANGED <<users, now, secrets, issued, spent, revoked>>

\* the catch around the save is empty: the pair is returned all the same
loginSaveFailed_swallowed(pending) == pending

\* catch (error) { throw new InternalServerErrorException(...) } around the
\* save of login; pending is the pair that was to be returned
loginSaveFailed(pending) == InternalServerErrorException("Failed to save refresh token")

\* userRepository.save(user) and the return of the pair, or, when the save
\* throws, the catch around it; the save throws when thrown is true
loginSaveOutcome(p, thrown) ==
  /\ pc[p] = "loginSave"
  /\ IF thrown
     THEN /\ UNCHANGED <<users, issued, revoked>>
          /\ Return(p, [loc[p] EXCEPT !.reason = "StoreFailure"],
                    loginSaveFailed(loc[p].pending))
     ELSE /\ users' = saveRow(loc[p].user)
          /\ issued' = [access |-> issued.access \cup {loc[p].pending.access_token},
                        refresh |-> issued.refresh \cup {loc[p].pending.refresh_token}]
          /\ revoked' = revoked \ {loc[p].pending.refresh_token}
          /\ Return(p, loc[p], loc[p].pending)
  /\ UNCHANGED <<now, secrets, calls, spent, racing>>

\* the save of login against a working store: it throws only when the write
\* of the loaded entity breaks the unique constraint
loginSave(p) == loginSaveOutcome(p, UniqueViolation(loc[p].user))

\* the save of login against a store that fails the write
loginSaveThrows(p) == loginSaveOutcome(p, TRUE)

\* -------------------------------------- AuthService.refreshAccessToken
\* the stored expiry of row u is in the past
StoredExpired(u) == u.refreshTokenExpiresAt # NullDate /\ now > u.refreshTokenExpiresAt

\* the expired entry loses its token and keeps its expiry
expireRefreshToken_tokenOnly(user) == [user EXCEPT !.refreshToken = NullToken]

\* user.refreshToken = null; user.refreshTokenExpiresAt = null
expireRefreshToken(user) ==
  [user EXCEPT !.refreshToken = NullToken, !.refreshTokenExpiresAt = NullDate]

\* the token presented to refresh and what was true of it at the call
RefreshCall(token) ==
  [IdleLoc EXCEPT
     !.op = "refresh", !.token = token,
     !.wasSpent = token \in spent,
     !.wasRevoked = token \in revoked,
     !.expiredOf = IF token # NullToken /\ \E u \in findByRefreshToken(token) : StoredExpired(u)
                   THEN (CHOOSE u \in findByRefreshToken(token) : StoredExpired(u)).id
                   ELSE ""]

\* verification, payload checks, the lookup, the stored-expiry and subject
\* checks and the generation of the new pair
refreshAccessToken(p, token) ==
  /\ Begin(p)
  /\ LET l == RefreshCall(token)
         verified == verify(token, secrets.refresh, now)
     IN
       IF token = NullToken
       THEN Return(p, l, BadRequestException("Refresh token is required"))
       ELSE IF verified = "TokenExpiredError"
       THEN Return(p, [l EXCEPT !.reason = "Expired"],
                   UnauthorizedException("Refresh token has expired"))
       ELSE IF verified = "JsonWebTokenError"
       THEN Return(p, [l EXCEPT !.reason = "Malformed"],
                   UnauthorizedException("Invalid refresh token format"))
       ELSE IF token.sub = ""
       THEN Return(p, [l EXCEPT !.reason = "Malformed"],
                   UnauthorizedException("Invalid token payload"))
       ELSE IF token.type # "refresh"
       THEN Return(p, [l EXCEPT !.reason = "WrongKind"],
                   UnauthorizedException("Invalid token type"))
       ELSE IF findByRefreshToken(token) = {}
       THEN Return(p, [l EXCEPT !.reason = "Revoked"],
                   UnauthorizedException("Refresh token has been revoked or does not exist"))
       ELSE \E user \in findByRefreshToken(token) :
              IF user.refreshTokenExpiresAt = NullDate \/ now > user.refreshTokenExpiresAt
              THEN Goto(p, [l EXCEPT !.reason = "StoredExpired",
                                     !.user = expireRefreshToken(user),
                                     !.pending = UnauthorizedException("Refresh token has expired")],
                        "refreshAccessTokenSave")
              ELSE IF user.id # token.sub
              THEN Return(p, [l EXCEPT !.reason = "SubjectMismatch"],
                          UnauthorizedException("Token user mismatch - security violation"))
              ELSE LET tokens == generateTokens(user, now)
                   IN Goto(p, [l EXCEPT
                                 !.user = [user EXCEPT
                                             !.refreshToken = tokens.refresh_token,
                                             !.refreshTokenExpiresAt =
                                                calculateRefreshTokenExpiry(now)],
                                 !.pending = Result("ok", "", NoUserOut,
                                                    tokens.access_token, tokens.refresh_token)],
                           "refreshAccessTokenSave")
  /\ UNCHANGED <<users, now, secrets, issued, spent, revoked>>

\* userRepository.save(user), then the return of the new pair (or the throw
\* of the expiry failure after the save that cleared the entry), or the catch
\* around the save when the write of the loaded entity breaks the unique
\* constraint
refreshAccessTokenSaveOutcome(p, thrown) ==
  /\ pc[p] = "refreshAccessTokenSave"
  /\ IF thrown
     THEN /\ UNCHANGED <<users, issued, spent, revoked>>
          /\ Return(p, [loc[p] EXCEPT !.reason = "StoreFailure"],
                    IF loc[p].pending.kind = "ok"
                    THEN InternalServerErrorException("Failed to save new refresh token")
                    ELSE InternalServerErrorException("Failed to save refresh token"))
     ELSE /\ users' = saveRow(loc[p].user)
          /\ IF loc[p].pending.kind = "ok"
             THEN /\ issued' = [access |-> issued.access \cup {loc[p].pending.access_token},
                                refresh |-> issued.refresh \cup {loc[p].pending.refresh_token}]
                  /\ spent' = spent \cup {loc[p].token}
                  /\ revoked' = revoked \ {loc[p].pending.refresh_token}
             ELSE UNCHANGED <<issued, spent, revoked>>
          /\ Return(p, loc[p], loc[p].pending)
  /\ UNCHANGED <<now, secrets, calls, racing>>

\* the save of refresh against a working store: it throws only when the
\* write of the loaded entity breaks the unique constraint
refreshAccessTokenSave(p) ==
  refreshAccessTokenSaveOutcome(p, UniqueViolation(loc[p].user))

\* the save of refresh against a store that fails the write
refreshAccessTokenSaveThrows(p) == refreshAccessTokenSaveOutcome(p, TRUE)

\* ------------------------------------- AuthService.revokeRefreshToken
\* the update leaves refreshTokenExpiresAt out
clearRefreshToken_tokenOnly(u) == [u EXCEPT !.refreshToken = NullToken]

\* the partial entity of the update: { refreshToken: null, refreshTokenExpiresAt: null }
clearRefreshToken(u) ==
  [u EXCEPT !.refreshToken = NullToken, !.refreshTokenExpiresAt = NullDate]

\* the update reaches every row
updateCriteria_everyRow(u, userId) == TRUE

\* userRepository.update(userId, ...): the rows the criteria select
updateCriteria(u, userId) == u.id = userId

\* what a revokeRefreshToken call was asked, and what it finds
LogoutCall(userId) ==
  [IdleLoc EXCEPT
     !.op = "logout", !.userId = userId,
     !.reason = IF findOneById(userId) = {} THEN "NoUser"
                ELSE IF \E u \in findOneById(userId) : u.refreshToken # NullToken
                THEN "Cleared"
                ELSE "NoToken"]

\* the body of revokeRefreshToken in slot p with locals l: validation and
\* userRepository.update(userId, ...)
revokeRefreshTokenUpdate(p, l, userId) ==
  IF userId = ""
  THEN /\ Return(p, l, BadRequestException("User ID is required"))
       /\ UNCHANGED <<users, revoked>>
  ELSE /\ users' = {IF updateCriteria(u, userId) THEN clearRefreshToken(u) ELSE u :
                      u \in users}
       /\ revoked' = revoked \cup
            {u.refreshToken : u \in {w \in users : w.id = userId /\ w.refreshToken # NullToken}}
       /\ Return(p, l, Result("ok", "", NoUserOut, NullToken, NullToken))

\* a call of revokeRefreshToken(userId)
revokeRefreshToken(p, userId) ==
  /\ Begin(p)
  /\ revokeRefreshTokenUpdate(p, LogoutCall(userId), userId)
  /\ UNCHANGED <<now, secrets, issued, spent>>

\* ------------------------ JwtStrategy.validate with AuthService.findById
\* validate returns the user whatever email the payload carries
validate_emailUnchecked(payload) ==
  IF payload.sub = "" \/ payload.email = <<>>
  THEN UnauthorizedException("Invalid token payload")
  ELSE IF findOneById(payload.sub) = {}
  THEN UnauthorizedException("User not found or has been deleted")
  ELSE LET user == CHOOSE u \in findOneById(payload.sub) : TRUE
       IN Result("ok", "", Omit(user, {"password"}), NullToken, NullToken)

\* JwtStrategy.validate(payload): the user of findById(payload.sub), which
\* becomes req.user, or the failure thrown
validate(payload) ==
  IF payload.sub = "" \/ payload.email = <<>>
  THEN UnauthorizedException("Invalid token payload")
  ELSE IF findOneById(payload.sub) = {}
  THEN UnauthorizedException("User not found or has been deleted")
  ELSE LET user == CHOOSE u \in findOneById(payload.sub) : TRUE
       IN IF user.email # payload.email
          THEN UnauthorizedException("Token email mismatch")
          ELSE Result("ok", "", Omit(user, {"password"}), NullToken, NullToken)

\* @UseGuards(JwtAuthGuard): the strategy verifies the token (secretOrKey,
\* ignoreExpiration: false) and runs validate on its payload
JwtAuthGuard(token) ==
  IF verify(token, secrets.access, now) # "ok"
  THEN UnauthorizedException("Unauthorized")
  ELSE validate(token)

\* what a guarded request was asked: its token, and whether the token is an
\* unexpired access token issued for a row that still has the token's email
GuardedCall(op, token) ==
  [IdleLoc EXCEPT
     !.op = op, !.token = token, !.userId = token.sub,
     !.valid = /\ token \in issued.access
               /\ Sec(now) < token.exp
               /\ \E u \in users : u.id = token.sub /\ u.email = token.email,
     !.reason = IF JwtAuthGuard(token).message = "User not found or has been deleted"
                THEN "NoUser" ELSE ""]

\* the guard of the profile endpoint and AuthController.getProfile, which
\* returns req.user: the object validate returned
getProfile(p, token) ==
  /\ Begin(p)
  /\ Return(p, GuardedCall("getProfile", token), JwtAuthGuard(token))
  /\ UNCHANGED <<users, now, secrets, issued, spent, revoked>>

\* AuthController.logout: the guard; the request it lets through goes on to
\* revokeRefreshToken(req.user.id)
logout(p, token) ==
  /\ Begin(p)
  /\ IF JwtAuthGuard(token).kind # "ok"
     THEN Return(p, GuardedCall("logout", token), JwtAuthGuard(token))
     ELSE Goto(p, [GuardedCall("logout", token) EXCEPT
                     !.userId = JwtAuthGuard(token).user.id], "logoutRevoke")
  /\ UNCHANGED <<users, now, secrets, issued, spent, revoked>>

\* AuthController.logout past the guard: revokeRefreshToken(req.user.id) and
\* the answer
logoutRevoke(p) ==
  /\ pc[p] = "logoutRevoke"
  /\ revokeRefreshTokenUpdate(p, [LogoutCall(loc[p].userId) EXCEPT
                                    !.token = loc[p].token, !.valid = loc[p].valid],
                              loc[p].userId)
  /\ UNCHANGED <<now, secrets, calls, issued, spent, racing>>

\* ---------------------------------------------- AuthService.updateUser
\* the name part of updateUser and the way on to the save
updateUserName(p, l, user) ==
  IF l.dto.name # Undefined
  THEN IF l.dto.name = <<>>
       THEN Return(p, l, BadRequestException("Name cannot be empty"))
       ELSE IF Len(trim(l.dto.name)) < 2
       THEN Return(p, l, BadRequestException("Name must be at least 2 characters long"))
       ELSE Goto(p, [l EXCEPT !.user = [user EXCEPT !.name = trim(l.dto.name)]],
                 "updateUserSave")
  ELSE Goto(p, [l EXCEPT !.user = user], "updateUserSave")

\* the email asked for is held by the row of userId, by another row, by none
EmailStanding(userId, email) ==
  IF \E u \in users : u.id = userId /\ u.email = TrimLower(email) THEN "OwnEmail"
  ELSE IF EmailHeld(email) THEN "OtherEmail"
  ELSE "FreeEmail"

\* the lookup is made for an email equal to the user's own as well
emailChanged_always(normalized, user) == TRUE

\* normalizedEmail !== user.email.toLowerCase()
emailChanged(normalized, user) == normalized # toLowerCase(user.email)

\* what an updateUser call was asked, and what it finds
UpdateCall(userId, dto) ==
  [IdleLoc EXCEPT
     !.op = "updateUser", !.userId = userId, !.dto = dto,
     !.email = IF dto.email = Undefined THEN <<>> ELSE dto.email,
     !.valid = dto.name = Undefined \/ Len(trim(dto.name)) >= 2,
     !.reason = IF dto.email = Undefined /\ dto.name = Undefined THEN ""
                ELSE IF findOneById(userId) = {} THEN "NoUser"
                ELSE IF dto.email = Undefined THEN ""
                ELSE EmailStanding(userId, dto.email)]

\* the body of updateUser in slot p with locals l, up to the lookup of a
\* changed email: validation, the load of the user and the email checks
updateUserLoad(p, l, userId, dto) ==
  IF userId = ""
  THEN Return(p, l, BadRequestException("User ID is required"))
  ELSE IF dto.email = Undefined /\ dto.name = Undefined
  THEN Return(p, l, BadRequestException("At least one field must be provided for update"))
  ELSE IF findOneById(userId) = {}
  THEN Return(p, l, UnauthorizedException("User not found"))
  ELSE \E user \in findOneById(userId) :
         IF dto.email # Undefined
         THEN IF dto.email = <<>>
              THEN Return(p, l, BadRequestException("Email must be a valid string"))
              ELSE IF Len(normalizedEmail(dto.email)) < 3
                      \/ ~includes(normalizedEmail(dto.email), "@")
              THEN Return(p, l, BadRequestException("Invalid email format"))
              ELSE IF emailChanged(normalizedEmail(dto.email), user)
              THEN Goto(p, [l EXCEPT !.user = user], "updateUserCheckEmail")
              ELSE updateUserName(p, l, user)
         ELSE updateUserName(p, l, user)

\* a call of updateUser(userId, dto)
updateUser(p, userId, dto) ==
  /\ Begin(p)
  /\ updateUserLoad(p, UpdateCall(userId, dto), userId, dto)
  /\ UNCHANGED <<users, now, secrets, issued, spent, revoked>>

\* AuthController.updateProfile: the guard, then the check of the body; the
\* request that passes both goes on to updateUser(req.user.id, updateUserDto)
updateProfile(p, token, dto) ==
  /\ Begin(p)
  /\ LET l == [GuardedCall("updateProfile", token) EXCEPT !.dto = dto]
     IN
       IF JwtAuthGuard(token).kind # "ok"
       THEN Return(p, l, JwtAuthGuard(token))
       ELSE IF dto.email = Undefined /\ dto.name = Undefined
       THEN Return(p, l, BadRequestException("At least one field must be provided for update"))
       ELSE Goto(p, [l EXCEPT !.userId = JwtAuthGuard(token).user.id], "updateProfileLoad")
  /\ UNCHANGED <<users, now, secrets, issued, spent, revoked>>

\* AuthController.updateProfile past the guard: updateUser(req.user.id,
\* updateUserDto) up to the lookup of a changed email
updateProfileLoad(p) ==
  /\ pc[p] = "updateProfileLoad"
  /\ updateUserLoad(p, [UpdateCall(loc[p].userId, loc[p].dto) EXCEPT
                          !.op = "updateProfile", !.token = loc[p].token],
                    loc[p].userId, loc[p].dto)
  /\ UNCHANGED <<users, now, secrets, calls, issued, spent, revoked, racing>>

\* the new email is saved as soon as the lookup finds it free
updateUserCheckEmail_savesEmail(p) ==
  /\ pc[p] = "updateUserCheckEmail"
  /\ IF findByEmail(normalizedEmail(loc[p].dto.email)) # {}
     THEN /\ users' = users
          /\ Return(p, loc[p], ConflictException("Email is already taken"))
     ELSE /\ users' = saveRow([loc[p].user EXCEPT !.email = normalizedEmail(loc[p].dto.email)])
          /\ updateUserName(p, loc[p],
                            [loc[p].user EXCEPT !.email = normalizedEmail(loc[p].dto.email)])
  /\ UNCHANGED <<now, secrets, calls, issued, spent, revoked, racing>>

\* the uniqueness lookup for a changed email, then the name part
updateUserCheckEmail(p) ==
  /\ pc[p] = "updateUserCheckEmail"
  /\ IF findByEmail(normalizedEmail(loc[p].dto.email)) # {}
     THEN Return(p, loc[p], ConflictException("Email is already taken"))
     ELSE updateUserName(p, loc[p],
                         [loc[p].user EXCEPT !.email = normalizedEmail(loc[p].dto.email)])
  /\ UNCHANGED <<users, now, secrets, calls, issued, spent, revoked, racing>>

\* the catch around userRepository.save in updateUser
updateUserSaveFailed(message) ==
  IF includes(message, "unique")
  THEN ConflictException("Email is already taken")
  ELSE InternalServerErrorException("Failed to update user")

\* userRepository.save(user) and the return of the user
updateUserSave(p) ==
  /\ pc[p] = "updateUserSave"
  /\ IF UniqueViolation(loc[p].user)
     THEN /\ users' = users
          /\ Return(p, loc[p], updateUserSaveFailed(UniqueConstraintError))
     ELSE /\ users' = saveRow(loc[p].user)
          /\ Return(p, loc[p], Result("ok", "",
                                      Omit(loc[p].user, {"password", "refreshToken"}),
                                      NullToken, NullToken))
  /\ UNCHANGED <<now, secrets, calls, issued, spent, revoked, racing>>

\* ------------------------------------------------------ specification
RefreshInputs == issued.access \cup issued.refresh \cup {GarbageToken, NullToken}

Next ==
  \/ /\ Tick
     /\ UNCHANGED client
  \/ /\ \E p \in Procs, dto \in RegisterDtos : register(p, dto[1], dto[2], dto[3])
     /\ UNCHANGED client
  \/ /\ \E p \in Procs : registerSave(p)
     /\ UNCHANGED client
  \/ /\ \E p \in Procs, dto \in LoginDtos : login(p, dto[1], dto[2])
     /\ UNCHANGED client
  \/ /\ \E p \in Procs : loginSave(p)
     /\ UNCHANGED client
  \/ /\ \E p \in Procs, token \in RefreshInputs : refreshAccessToken(p, token)
     /\ UNCHANGED client
  \/ /\ \E p \in Procs : refreshAccessTokenSave(p)
     /\ UNCHANGED client
  \/ /\ \E p \in Procs, userId \in Ids \cup {""} : revokeRefreshToken(p, userId)
     /\ UNCHANGED client
  \/ /\ \E p \in Procs, token \in issued.access \cup issued.refresh : getProfile(p, token)
     /\ UNCHANGED client
  \/ /\ \E p \in Procs, userId \in Ids, dto \in UpdateUserDtos : updateUser(p, userId, dto)
     /\ UNCHANGED client
  \/ /\ \E p \in Procs : updateUserCheckEmail(p)
     /\ UNCHANGED client
  \/ /\ \E p \in Procs : updateUserSave(p)
     /\ UNCHANGED client

Spec == Init /\ [][Next]_vars

\* The credential operations alone (registration and the two password
\* checks, none of which reads the clock) over more request bodies: names
\* that are too short once trimmed.
NameBlank == <<" ", " ">>
CredentialRegisterDtos ==
  RegisterDtos \cup {<<EmailAb, PwGood, NameOneLetter>>, <<EmailAb, PwGood, NameBlank>>}

NextCredentials ==
  \/ /\ \E p \in Procs, dto \in CredentialRegisterDtos : register(p, dto[1], dto[2], dto[3])
     /\ UNCHANGED client
  \/ /\ \E p \in Procs : registerSave(p)
     /\ UNCHANGED client
  \/ /\ \E p \in Procs, dto \in LoginDtos : login(p, dto[1], dto[2])
     /\ UNCHANGED client
  \/ /\ \E p \in Procs : loginSave(p)
     /\ UNCHANGED client
  \/ /\ \E p \in Procs, dto \in LoginDtos : validateUser(p, dto[1], dto[2])
     /\ UNCHANGED client

SpecCredentials == Init /\ [][NextCredentials]_vars

\* The endpoints behind the access-token guard, with registration and login.
GuardedDtos ==
  {[email |-> EmailCd, name |-> Undefined], [email |-> Undefined, name |-> NameBo],
   [email |-> Undefined, name |-> Undefined]}

NextGuard ==
  \/ /\ Tick
     /\ UNCHANGED client
  \/ /\ \E p \in Procs, dto \in RegisterDtos : register(p, dto[1], dto[2], dto[3])
     /\ UNCHANGED client
  \/ /\ \E p \in Procs : registerSave(p)
     /\ UNCHANGED client
  \/ /\ \E p \in Procs, dto \in LoginDtos : login(p, dto[1], dto[2])
     /\ UNCHANGED client
  \/ /\ \E p \in Procs : loginSave(p)
     /\ UNCHANGED client
  \/ /\ \E p \in Procs, token \in issued.access \cup issued.refresh : getProfile(p, token)
     /\ UNCHANGED client
  \/ /\ \E p \in Procs, token \in issued.access \cup issued.refresh : logout(p, token)
     /\ UNCHANGED client
  \/ /\ \E p \in Procs : logoutRevoke(p)
     /\ UNCHANGED client
  \/ /\ \E p \in Procs, token \in issued.access \cup issued.refresh, dto \in GuardedDtos :
          updateProfile(p, token, dto)
     /\ UNCHANGED client
  \/ /\ \E p \in Procs : updateProfileLoad(p)
     /\ UNCHANGED client
  \/ /\ \E p \in Procs : updateUserCheckEmail(p)
     /\ UNCHANGED client
  \/ /\ \E p \in Procs : updateUserSave(p)
     /\ UNCHANGED client

SpecGuard == Init /\ [][NextGuard]_vars

\* Login and refresh against a store whose writes can fail.
NextStoreFailure ==
  \/ /\ Tick
     /\ UNCHANGED client
  \/ /\ \E p \in Procs, dto \in RegisterDtos : register(p, dto[1], dto[2], dto[3])
     /\ UNCHANGED client
  \/ /\ \E p \in Procs : registerSave(p)
     /\ UNCHANGED client
  \/ /\ \E p \in Procs, dto \in LoginDtos : login(p, dto[1], dto[2])
     /\ UNCHANGED client
  \/ /\ \E p \in Procs : loginSave(p)
     /\ UNCHANGED client
  \/ /\ \E p \in Procs : loginSaveThrows(p)
     /\ UNCHANGED client
  \/ /\ \E p \in Procs, token \in RefreshInputs : refreshAccessToken(p, token)
     /\ UNCHANGED client
  \/ /\ \E p \in Procs : refreshAccessTokenSave(p)
     /\ UNCHANGED client
  \/ /\ \E p \in Procs : refreshAccessTokenSaveThrows(p)
     /\ UNCHANGED client

SpecStoreFailure == Init /\ [][NextStoreFailure]_vars

\* Login and refresh with a refresh duration in days, on a server in UTC and
\* on a server whose zone moves its clocks forward.
InitExpiry ==
  /\ users = {}
  /\ now = 0
  /\ secrets \in {[access |-> "k1", refresh |-> "k2", refreshExpiresIn |-> SevenDays,
                   zone |-> zone] : zone \in {"UTC", "DST"}}
  /\ pc = [p \in Procs |-> "idle"]
  /\ loc = [p \in Procs |-> IdleLoc]
  /\ result = [p \in Procs |-> NoResult]
  /\ calls = 0
  /\ issued = [access |-> {}, refresh |-> {}]
  /\ spent = {}
  /\ revoked = {}
  /\ racing = [p \in Procs |-> {}]
  /\ InitClient

NextExpiry ==
  \/ /\ Tick
     /\ UNCHANGED client
  \/ /\ \E p \in Procs, dto \in RegisterDtos : register(p, dto[1], dto[2], dto[3])
     /\ UNCHANGED client
  \/ /\ \E p \in Procs : registerSave(p)
     /\ UNCHANGED client
  \/ /\ \E p \in Procs, dto \in LoginDtos : login(p, dto[1], dto[2])
     /\ UNCHANGED client
  \/ /\ \E p \in Procs : loginSave(p)
     /\ UNCHANGED client
  \/ /\ \E p \in Procs, token \in RefreshInputs : refreshAccessToken(p, token)
     /\ UNCHANGED client
  \/ /\ \E p \in Procs : refreshAccessTokenSave(p)
     /\ UNCHANGED client

SpecExpiry == InitExpiry /\ [][NextExpiry]_vars

\* ------------------------------------------ AuthController's answers
\* An answer of the server: its status, the user of its body (response.user,
\* or the body itself for GET /profile) and what it does to the cookies.
Response(status, user, setCookie) ==
  [status |-> status, user |-> user, setCookie |-> setCookie]

KeepCookies == [op |-> "keep", access_token |-> NullToken, refresh_token |-> NullToken]
ClearCookies == [op |-> "clear", access_token |-> NullToken, refresh_token |-> NullToken]
SetCookies(r) ==
  [op |-> "set", access_token |-> r.access_token, refresh_token |-> r.refresh_token]

\* AuthController.register: return this.authService.register(registerDto)
registerResponse(r) == Response(StatusOf(r.kind), r.user, KeepCookies)

\* AuthController.login of the revision in part_000: the catch clears the
\* cookies and does not throw again, so the handler returns undefined
loginResponse_part000(r) ==
  IF r.kind = "ok"
  THEN Response(200, r.user, SetCookies(r))
  ELSE Response(200, NoUserOut, ClearCookies)

\* AuthController.login: the cookies and { user, message } for the pair of
\* AuthService.login; for a failure the catch clears the cookies and throws
\* the failure again
loginResponse(r) ==
  IF r.kind = "ok"
  THEN Response(200, r.user, SetCookies(r))
  ELSE Response(StatusOf(r.kind), NoUserOut, ClearCookies)

\* AuthController.logout: a request the guard turned away never reaches the
\* handler; the handler clears the cookies whether revokeRefreshToken
\* returned or threw
logoutResponse(r, handled) ==
  IF handled
  THEN Response(StatusOf(r.kind), NoUserOut, ClearCookies)
  ELSE Response(StatusOf(r.kind), NoUserOut, KeepCookies)

\* AuthController.getProfile (return req.user) and updateProfile
\* ({ user, message }): no cookie is touched
profileResponse(r) == Response(StatusOf(r.kind), r.user, KeepCookies)

\* the request of slot p ends at this step
Completes(p) ==
  /\ pc'[p] = "done"
  /\ (Free(p) /\ calls' = calls + 1) \/ InFlight(p)

\* the answer to the request of slot p, which ends at this step
Answer(p) ==
  CASE loc'[p].op = "register" -> registerResponse(result'[p])
    [] loc'[p].op = "login" -> loginResponse(result'[p])
    [] loc'[p].op = "logout" -> logoutResponse(result'[p], pc[p] = "logoutRevoke")
    [] OTHER -> profileResponse(result'[p])

\* the same with the login handler of part_000
Answer_part000(p) ==
  IF loc'[p].op = "login" THEN loginResponse_part000(result'[p]) ELSE Answer(p)

\* the answers of the requests that end at this step leave for the browser;
\* served is what the service call behind the answer returned or threw
Deliver(part000) ==
  inbox' = inbox \cup
    {[action |-> loc'[p].op, n |-> calls', slot |-> p, served |-> result'[p].kind,
      response |-> IF part000 THEN Answer_part000(p) ELSE Answer(p)] : p \in {q \in Procs : Completes(q)}}

\* ------------------------------------------------- client: useAuthStore
\* set({ isLoading: true, error: null })
Loading(st) == [st EXCEPT !.isLoading = TRUE, !.error = NoError]

\* axios resolves for a status in the 200s and rejects otherwise
Resolves(response) == response.status \in {200, 201}

\* error.message of the AxiosError, told apart by the status it names
ErrorMessage(response) == response.status

\* a server step of a request that is under way
Serve ==
  /\ Deliver(FALSE)
  /\ UNCHANGED <<store, cookies, promise>>

\* store actions whose promise is pending: their request is with the server
\* or its answer on the way back
UnderWay == Cardinality({p \in Procs : InFlight(p)}) + Cardinality(inbox)

\* the first lines of a store action: the set above and the request, which
\* the browser sends with its cookies and the server starts to handle
Dispatch ==
  /\ UnderWay < MaxUnderWay
  /\ store' = Loading(store)
  /\ Deliver(FALSE)
  /\ UNCHANGED <<cookies, promise>>

\* the same against the controller of part_000
Dispatch_part000 ==
  /\ UnderWay < MaxUnderWay
  /\ store' = Loading(store)
  /\ Deliver(TRUE)
  /\ UNCHANGED <<cookies, promise>>

Serve_part000 ==
  /\ Deliver(TRUE)
  /\ UNCHANGED <<store, cookies, promise>>

\* useAuthStore.login up to the await
storeLogin(p, dto) == login(p, dto[1], dto[2]) /\ Dispatch

\* useAuthStore.register up to the await
storeRegister(p, dto) == register(p, dto[1], dto[2], dto[3]) /\ Dispatch

\* useAuthStore.logout up to the await
storeLogout(p) == logout(p, cookies.access_token) /\ Dispatch

\* useAuthStore.fetchProfile up to the await
storeFetchProfile(p) == getProfile(p, cookies.access_token) /\ Dispatch

\* useAuthStore.updateProfile up to the await
storeUpdateProfile(p, dto) == updateProfile(p, cookies.access_token, dto) /\ Dispatch

\* the set of a store action whose request resolved: login, register and
\* fetchProfile take the user and set isAuthenticated
sessionSet(st, response) ==
  [user |-> response.user, isAuthenticated |-> TRUE, isLoading |-> FALSE, error |-> NoError]

\* the catch of login, register and updateProfile
failureSet(st, response) ==
  [st EXCEPT !.isLoading = FALSE, !.error = ErrorMessage(response)]

\* the catch changes isLoading and error only
fetchProfileFailureSet_keepsSession(st, response) ==
  [st EXCEPT !.isLoading = FALSE, !.error = ErrorMessage(response)]

\* the catch of fetchProfile
fetchProfileFailureSet(st, response) ==
  [user |-> NoUserOut, isAuthenticated |-> FALSE, isLoading |-> FALSE,
   error |-> ErrorMessage(response)]

\* the set of updateProfile whose request resolved
updateProfileSet(st, response) ==
  [st EXCEPT !.user = response.user, !.isLoading = FALSE, !.error = NoError]

\* the finally of logout
logoutSet(st) ==
  [user |-> NoUserOut, isAuthenticated |-> FALSE, isLoading |-> FALSE, error |-> NoError]

\* the store after the await of the action, for the answer m
Settled(st, m) ==
  CASE m.action = "logout" -> logoutSet(st)
    [] m.action = "getProfile" ->
         IF Resolves(m.response) THEN sessionSet(st, m.response)
         ELSE fetchProfileFailureSet(st, m.response)
    [] m.action = "updateProfile" ->
         IF Resolves(m.response) THEN updateProfileSet(st, m.response)
         ELSE failureSet(st, m.response)
    [] OTHER ->
         IF Resolves(m.response) THEN sessionSet(st, m.response)
         ELSE failureSet(st, m.response)

\* the catch of logout throws the error again
Settles_logoutRejects(m) ==
  [action |-> m.action,
   state |-> IF ~Resolves(m.response) THEN "rejected" ELSE "fulfilled"]

\* the promise of the action: every catch but the one of logout throws again
Settles(m) ==
  [action |-> m.action,
   state |-> IF m.action # "logout" /\ ~Resolves(m.response) THEN "rejected"
             ELSE "fulfilled"]

\* the answer m reaches the browser: the cookies follow its Set-Cookie
\* headers and the store action goes on after its await
settle(m) ==
  /\ m \in inbox
  /\ inbox' = inbox \ {m}
  /\ cookies' = IF m.response.setCookie.op = "keep" THEN cookies
                ELSE [access_token |-> m.response.setCookie.access_token,
                      refresh_token |-> m.response.setCookie.refresh_token]
  /\ store' = Settled(store, m)
  /\ promise' = Settles(m)
  /\ UNCHANGED <<users, now, secrets, pc, loc, result, calls, issued, spent, revoked, racing>>

\* One browser with the store, against the controller and the service.
ClientLoginDtos == {<<EmailAb, PwGood>>, <<EmailAb, PwOther>>}
ClientRegisterDtos == {<<EmailAb, PwGood, NameAl>>}
ClientUpdateDtos ==
  {[email |-> EmailCd, name |-> Undefined], [email |-> Undefined, name |-> NameBo]}

NextClient ==
  \/ /\ Tick
     /\ UNCHANGED client
  \/ \E p \in Procs, dto \in ClientRegisterDtos : storeRegister(p, dto)
  \/ \E p \in Procs : registerSave(p) /\ Serve
  \/ \E p \in Procs, dto \in ClientLoginDtos : storeLogin(p, dto)
  \/ \E p \in Procs : loginSave(p) /\ Serve
  \/ \E p \in Procs : storeLogout(p)
  \/ \E p \in Procs : logoutRevoke(p) /\ Serve
  \/ \E p \in Procs : storeFetchProfile(p)
  \/ \E p \in Procs, dto \in ClientUpdateDtos : storeUpdateProfile(p, dto)
  \/ \E p \in Procs : updateProfileLoad(p) /\ Serve
  \/ \E p \in Procs : updateUserCheckEmail(p) /\ Serve
  \/ \E p \in Procs : updateUserSave(p) /\ Serve
  \/ \E m \in inbox : settle(m)

\* the server of the browser: the secrets differ, the refresh duration is '7d'
InitBrowser ==
  /\ Init
  /\ secrets.access # secrets.refresh
  /\ secrets.refreshExpiresIn = SevenDays

SpecClient == InitBrowser /\ [][NextClient]_vars

\* The same browser against the login handler of part_000.
NextPart000 ==
  \/ \E p \in Procs, dto \in ClientRegisterDtos :
       register(p, dto[1], dto[2], dto[3]) /\ Dispatch_part000
  \/ \E p \in Procs : registerSave(p) /\ Serve_part000
  \/ \E p \in Procs, dto \in ClientLoginDtos : login(p, dto[1], dto[2]) /\ Dispatch_part000
  \/ \E p \in Procs : loginSave(p) /\ Serve_part000
  \/ \E m \in inbox : settle(m)

SpecPart000 == InitBrowser /\ [][NextPart000]_vars

\* ============================================================ properties
Done(p, op) == pc[p] = "done" /\ loc[p].op = op
\* the step starts a request in slot p (at most one slot is free at a time)
Starts(p) == Free(p) /\ calls' = calls + 1
Sensitive == {"password", "refreshToken", "refreshTokenExpiresAt"}

\* C1: of two overlapping refresh calls that present the same refresh token,
\* at most one returns a new pair.
C1_RacingRefreshOneWinner ==
  \A p \in Procs : \A q \in racing[p] :
    (Done(p, "refresh") /\ Done(q, "refresh") /\ loc[p].token = loc[q].token)
      => ~(result[p].kind = "ok" /\ result[q].kind = "ok")

\* C2: a refresh call that presents a token which an earlier successful
\* refresh has already exchanged fails Unauthorized.
C2_RefreshTokenSingleUse ==
  \A p \in Procs :
    (Done(p, "refresh") /\ loc[p].wasSpent) => result[p].kind = "Unauthorized"

\* C3: a refresh call that presents a token which was the stored token of a
\* user when a logout of that user completed fails Unauthorized.
C3_LogoutInvalidates ==
  \A p \in Procs :
    (Done(p, "refresh") /\ loc[p].wasRevoked) => result[p].kind = "Unauthorized"

\* C4: the user object returned by register, login, updateProfile and
\* getProfile has none of password, refreshToken, refreshTokenExpiresAt.
C4_UserOutputSanitized ==
  \A p \in Procs :
    (pc[p] = "done" /\ loc[p].op \in {"register", "login", "updateUser", "getProfile"}
       /\ result[p].kind = "ok")
      => (DOMAIN result[p].user) \cap Sensitive = {}

\* C5: a refresh call that presents the stored token of a user whose stored
\* expiry is past fails Unauthorized and leaves both refresh fields of that
\* user null.
C5_ExpiredEntryCleared ==
  \A p \in Procs :
    (Done(p, "refresh") /\ loc[p].expiredOf # "")
      => /\ result[p].kind = "Unauthorized"
         /\ \A u \in users :
              u.id = loc[p].expiredOf
                => u.refreshToken = NullToken /\ u.refreshTokenExpiresAt = NullDate

\* C6: in every row, refreshToken is null exactly when refreshTokenExpiresAt
\* is null.
C6_RefreshFieldsTogether ==
  \A u \in users : (u.refreshToken = NullToken) <=> (u.refreshTokenExpiresAt = NullDate)

\* a logout has cleared a stored token of a user who holds none now
C6_Witness ==
  \E p \in Procs : \E u \in users :
    /\ Done(p, "logout") /\ u.id = loc[p].userId
    /\ revoked # {}
    /\ u.refreshToken = NullToken /\ u.refreshTokenExpiresAt = NullDate

\* C7: a valid register call ends in success or Conflict; it ends in
\* Conflict when a row held the email (compared trimmed and lowercased) at
\* the call, in success when none did and no other request overlapped it; and
\* of two overlapping valid register calls for one free email exactly one
\* succeeds.
C7_OneRegistrationPerEmail ==
  \A p \in Procs :
    (Done(p, "register") /\ loc[p].valid)
      => /\ result[p].kind \in {"ok", "Conflict"}
         /\ ~loc[p].free => result[p].kind = "Conflict"
         /\ (loc[p].free /\ racing[p] = {}) => result[p].kind = "ok"
         /\ \A q \in racing[p] :
              (Done(q, "register") /\ loc[q].valid /\ loc[q].free /\ loc[p].free
                 /\ TrimLower(loc[q].email) = TrimLower(loc[p].email))
                => (result[p].kind = "ok") # (result[q].kind = "ok")

\* two overlapping valid registrations of case/whitespace variants of one
\* free email have ended, one in Conflict
C7_Witness ==
  \E p \in Procs : \E q \in racing[p] :
    /\ Done(p, "register") /\ Done(q, "register")
    /\ loc[p].valid /\ loc[q].valid /\ loc[p].free /\ loc[q].free
    /\ loc[p].email # loc[q].email
    /\ TrimLower(loc[p].email) = TrimLower(loc[q].email)
    /\ result[p].kind = "Conflict" /\ result[q].kind = "ok"

\* a login call has failed on its credentials
LoginFailed(p) == Done(p, "login") /\ loc[p].reason \in {"NoUser", "WrongPassword"}
\* a refresh call for a non-empty token has failed
RefreshFailed(p) ==
  Done(p, "refresh") /\ loc[p].token # NullToken /\ result[p].kind # "ok"

\* C8: a login that fails because no user has the email and one that fails
\* because the password is wrong give the caller the same response, and
\* neither changes a row.
C8_LoginFailureGeneric ==
  [][\A p \in Procs :
       (Starts(p) /\ LoginFailed(p)')
         => /\ users' = users
            /\ (LoginFailed(p) /\ loc[p].reason # loc'[p].reason)
                 => AuthExceptionFilter(result'[p]) = AuthExceptionFilter(result[p])]_vars

\* a login has failed on a wrong password for a registered email
C8_Witness ==
  \E p \in Procs : LoginFailed(p) /\ loc[p].reason = "WrongPassword" /\ users # {}

\* C9: two failing refresh calls give the caller the same response whatever
\* the reasons they failed for.
C9_RefreshFailureGeneric ==
  [][\A p \in Procs :
       (Starts(p) /\ RefreshFailed(p) /\ RefreshFailed(p)')
         => AuthExceptionFilter(result'[p]) = AuthExceptionFilter(result[p])]_vars

\* C10: a refresh call that presents an issued access token ends at once,
\* Unauthorized, and changes no row.
C10_AccessTokenNotRefreshable ==
  [][\A p \in Procs :
       (Starts(p) /\ loc'[p].op = "refresh" /\ pc'[p] # "idle"
          /\ loc'[p].token \in issued.access)
         => /\ pc'[p] = "done"
            /\ result'[p].kind = "Unauthorized"
            /\ users' = users]_vars

\* with both secrets equal, an access token passed verification and was
\* refused for its kind
C10_Witness ==
  \E p \in Procs :
    /\ Done(p, "refresh") /\ loc[p].token \in issued.access
    /\ secrets.access = secrets.refresh
    /\ loc[p].reason = "WrongKind" /\ result[p].kind = "Unauthorized"

\* ------------------------------------------------------------ C11..C20
\* the step is one of the request in slot p, and the step ends that request
Steps(p) == Starts(p) \/ (InFlight(p) /\ pc'[p] # pc[p])
Ends(p) == Steps(p) /\ pc'[p] = "done"

\* the row of userId in rows, as a set (empty when there is none)
RowOf(rows, userId) == {u \in rows : u.id = userId}

\* C11: a login or validateUser call that fails on its credentials has
\* compared the password with a hash before it returned: with the dummy hash
\* when no user has the email, with the stored hash otherwise.
C11_DummyCompareOnNotFound ==
  \A p \in Procs :
    (pc[p] = "done" /\ loc[p].op \in {"login", "validateUser"}
       /\ loc[p].reason \in {"NoUser", "WrongPassword"})
      => /\ loc[p].compared # ""
         /\ loc[p].reason = "NoUser" => loc[p].compared = "dummy"
         /\ result[p].kind \in {"Unauthorized", "null"}

\* validateUser has returned null for an email that no row holds, another
\* email being registered
C11_Witness ==
  \E p \in Procs :
    /\ Done(p, "validateUser") /\ loc[p].reason = "NoUser"
    /\ loc[p].compared = "dummy" /\ result[p].kind = "null" /\ users # {}

\* C12 (as stated): a step of a refresh call that changes a row is the step
\* that returns the new pair, so a refresh call that fails changes no row.
C12_FailedRefreshWritesNothing ==
  [][\A p \in Procs :
       (Steps(p) /\ loc'[p].op = "refresh" /\ users' # users)
         => (pc'[p] = "done" /\ result'[p].kind = "ok")]_vars

\* C12 (amended): a step of a refresh call that changes a row either returns
\* the new pair or is the write of the stored-expiry check, which leaves both
\* refresh fields of the token's user null and every other row as it was; a
\* refresh call that fails for any other reason changes no row.
C12_RefreshWrites ==
  [][\A p \in Procs :
       (Steps(p) /\ loc'[p].op = "refresh")
         => /\ users' # users
                 => /\ pc'[p] = "done"
                    /\ result'[p].kind = "ok" \/ loc'[p].reason = "StoredExpired"
            /\ (users' # users /\ loc'[p].reason = "StoredExpired")
                 => /\ result'[p].kind = "Unauthorized"
                    /\ \A u \in RowOf(users', loc[p].user.id) :
                         u.refreshToken = NullToken /\ u.refreshTokenExpiresAt = NullDate
                    /\ users' \ RowOf(users', loc[p].user.id)
                         = users \ RowOf(users, loc[p].user.id)
            /\ (Ends(p) /\ result'[p].kind = "Unauthorized"
                  /\ loc'[p].reason # "StoredExpired")
                 => users' = users]_vars

\* a refresh has failed on the stored expiry and the entry is cleared
C12_Witness ==
  \E p \in Procs : \E u \in users :
    /\ Done(p, "refresh") /\ loc[p].reason = "StoredExpired"
    /\ loc[p].expiredOf = u.id /\ result[p].kind = "Unauthorized"
    /\ u.refreshToken = NullToken /\ u.refreshTokenExpiresAt = NullDate

\* C13: a step of a register or updateProfile call that changes a row is the
\* step that returns success, so a call that fails has changed no row.
C13_FailedValidationWritesNothing ==
  [][\A p \in Procs :
       (Steps(p) /\ loc'[p].op \in {"register", "updateUser"} /\ users' # users)
         => (pc'[p] = "done" /\ result'[p].kind = "ok")]_vars

\* an updateProfile with a free new email and a name too short has failed
\* and the user still has the old email
C13_Witness ==
  \E p \in Procs : \E u \in users :
    /\ Done(p, "updateUser") /\ loc[p].reason = "FreeEmail" /\ ~loc[p].valid
    /\ result[p].kind = "BadRequest"
    /\ u.id = loc[p].userId /\ u.email # TrimLower(loc[p].email)

RefreshAccepts(rows, token, t) ==
  /\ verify(token, secrets.refresh, t) = "ok"
  /\ token.sub # "" /\ token.type = "refresh"
  /\ \E u \in rows :
       /\ u.refreshToken = token /\ u.id = token.sub
       /\ u.refreshTokenExpiresAt # NullDate /\ ~(t > u.refreshTokenExpiresAt)

\* C15: when a login of a user succeeds, refresh accepts none of the refresh
\* tokens handed out for that user before.
C15_LoginReplacesToken ==
  [][\A p \in Procs :
       (Ends(p) /\ loc'[p].op = "login" /\ result'[p].kind = "ok")
         => \A token \in issued.refresh :
              token.sub = loc[p].user.id => ~RefreshAccepts(users', token, now')]_vars

\* C16: a getProfile or updateProfile call (with a field to update) for a
\* userId that has no row fails NotFound.
C16_MissingUserNotFound ==
  \A p \in Procs :
    (pc[p] = "done" /\ loc[p].op \in {"getProfile", "updateUser"}
       /\ loc[p].reason = "NoUser")
      => result[p].kind = "NotFound"

\* C17: an updateProfile call with an email that no other request overlaps:
\* when the email (trimmed, lowercased) is the user's own it does not fail
\* Conflict and the user's email stays; when another user holds it the call
\* fails Conflict and changes no row; when no user holds it the call succeeds
\* if the name is valid, and on success the user's email is the normalized one.
C17_UpdateEmailUniqueness ==
  [][\A p \in Procs :
       (Ends(p) /\ loc'[p].op = "updateUser" /\ racing'[p] = {})
         => /\ loc'[p].reason = "OwnEmail"
                 => /\ result'[p].kind # "Conflict"
                    /\ \A u \in RowOf(users', loc'[p].userId) :
                         u.email = TrimLower(loc'[p].email)
            /\ loc'[p].reason = "OtherEmail"
                 => result'[p].kind = "Conflict" /\ users' = users
            /\ loc'[p].reason = "FreeEmail"
                 => /\ loc'[p].valid => result'[p].kind = "ok"
                    /\ result'[p].kind = "ok"
                         => /\ \A u \in RowOf(users', loc'[p].userId) :
                                 u.email = TrimLower(loc'[p].email)
                            /\ result'[p].user.email = TrimLower(loc'[p].email)]_vars

\* an updateProfile with a case and whitespace variant of the user's own
\* email has succeeded
C17_Witness ==
  \E p \in Procs : \E u \in users :
    /\ Done(p, "updateUser") /\ loc[p].reason = "OwnEmail" /\ racing[p] = {}
    /\ loc[p].email = EmailAbVariant /\ result[p].kind = "ok"
    /\ u.id = loc[p].userId /\ u.email = EmailAb

\* C18: a register call whose password has fewer than 8 characters or whose
\* name has fewer than 2 once trimmed fails BadRequest and creates no row.
C18_RegisterRejectsShortInput ==
  [][\A p \in Procs :
       (Ends(p) /\ loc'[p].op = "register"
          /\ loc'[p].reason \in {"ShortPassword", "ShortName"})
         => (result'[p].kind = "BadRequest" /\ users' = users)]_vars

\* C19: every stored email is its own trimmed, lowercased form; a register
\* that succeeds has stored the trimmed, lowercased email; and a login that
\* no other request overlaps, with an email that, trimmed and lowercased, is
\* the email of a row whose password is the one given, returns a pair of
\* tokens and that user.
C19_EmailNormalized ==
  [][/\ \A u \in users' : u.email = TrimLower(u.email)
     /\ \A p \in Procs :
          /\ (Ends(p) /\ loc'[p].op = "register" /\ result'[p].kind = "ok")
               => /\ result'[p].user.email = TrimLower(loc'[p].email)
                  /\ \E u \in users' :
                       u.id = result'[p].user.id /\ u.email = TrimLower(loc'[p].email)
          /\ (Ends(p) /\ loc'[p].op = "login" /\ loc'[p].valid /\ racing'[p] = {})
               => /\ result'[p].kind = "ok"
                  /\ result'[p].access_token # NullToken
                  /\ result'[p].refresh_token # NullToken
                  /\ result'[p].user.email = TrimLower(loc'[p].email)]_vars

\* a login with a case and whitespace variant of the registered email has
\* returned tokens
C19_Witness ==
  \E p \in Procs :
    /\ Done(p, "login") /\ loc[p].email = EmailAbVariant /\ loc[p].valid
    /\ racing[p] = {}
    /\ result[p].kind = "ok" /\ result[p].refresh_token # NullToken
    /\ \E u \in users : u.email = EmailAb

\* C20: the access token that login or refresh returns verifies under the
\* access secret at every time before its expiry, expires after it was made,
\* and carries the id and email of the user it was made for; and the guard
\* accepts an issued, unexpired access token while a
\* row has its subject as id and its email, and returns that user.
C20_AccessTokenRoundTrip ==
  [][\A p \in Procs :
       /\ (Ends(p) /\ loc'[p].op \in {"login", "refresh"} /\ result'[p].kind = "ok")
            => /\ \A t \in 0..MaxTime :
                    Sec(t) < result'[p].access_token.exp
                      => verify(result'[p].access_token, secrets.access, t) = "ok"
               /\ result'[p].access_token.sub = loc[p].user.id
               /\ result'[p].access_token.email = loc[p].user.email
               /\ result'[p].access_token.exp > result'[p].access_token.iat
       /\ (Starts(p) /\ loc'[p].op = "getProfile" /\ loc'[p].valid)
            => /\ pc'[p] = "done" /\ result'[p].kind = "ok"
               /\ result'[p].user.id = loc'[p].token.sub
               /\ result'[p].user.email = loc'[p].token.email]_vars

\* the guard has accepted an issued access token and returned its user
C20_Witness ==
  \E p \in Procs :
    /\ Done(p, "getProfile") /\ loc[p].valid /\ result[p].kind = "ok"
    /\ loc[p].token \in issued.access
    /\ result[p].user.id = loc[p].token.sub

\* ------------------------------------------------------------ C21..C30
RefreshFields == {"refreshToken", "refreshTokenExpiresAt"}
\* the refresh fields of the rows, by id; and the other fields
TokensOf(rows) == {[id |-> u.id, refreshToken |-> u.refreshToken,
                    refreshTokenExpiresAt |-> u.refreshTokenExpiresAt] : u \in rows}
ProfilesOf(rows) == {Omit(u, RefreshFields) : u \in rows}

\* C21: no step of an updateProfile call changes the refreshToken or the
\* refreshTokenExpiresAt of a row.
C21_UpdateKeepsRefreshFields ==
  [][\A p \in Procs :
       (Steps(p) /\ loc'[p].op = "updateUser") => TokensOf(users') = TokensOf(users)]_vars

\* C22: no two rows have the same email (or id), and every stored email is
\* its own trimmed, lowercased form.
C22_EmailsUniqueNormalized ==
  /\ \A u, v \in users : (u.email = v.email \/ u.id = v.id) => u = v
  /\ \A u \in users : u.email = TrimLower(u.email)

\* of two overlapping requests that wrote or tried to write the same email,
\* one was refused Conflict, and two rows exist
C22_Witness ==
  /\ Cardinality(users) = 2
  /\ \E p \in Procs : \E q \in racing[p] :
       /\ pc[p] = "done" /\ pc[q] = "done"
       /\ loc[p].op \in {"register", "updateUser"} /\ loc[q].op \in {"register", "updateUser"}
       /\ result[p].kind = "Conflict" /\ result[q].kind = "ok"

\* C23: a refresh call that presents the refresh token which a finished
\* login or refresh has just returned, before the token's signed expiry and
\* before the expiry stored with it, while the request of the other slot (the
\* only one that can have ended since) is no login, refresh or logout, passes
\* every check and goes on to save a new pair.
C23_ReturnedTokenAccepted ==
  [][\A p, q \in Procs :
       (/\ Starts(p) /\ loc'[p].op = "refresh"
        /\ pc[q] = "done" /\ loc[q].op \in {"login", "refresh"} /\ result[q].kind = "ok"
        /\ loc'[p].token = result[q].refresh_token
        /\ \A r \in Procs \ {q} : loc[r].op \notin {"login", "refresh", "logout"}
        /\ Sec(now) < loc'[p].token.exp
        /\ now <= calculateRefreshTokenExpiry(loc'[p].token.iat * TicksPerSec))
         => (pc'[p] = "refreshAccessTokenSave" /\ loc'[p].pending.kind = "ok")]_vars

\* C25: a register call whose password has fewer than 8 characters fails
\* BadRequest, whether or not a row holds the email.
C25_ShortPasswordInvalidInput ==
  \A p \in Procs :
    (Done(p, "register") /\ loc[p].reason = "ShortPassword")
      => result[p].kind = "BadRequest"

\* C27: the refresh token stored in a row has the row's id as subject and
\* the type refresh, no two rows store the same token, and no refresh call
\* fails on the subject check.
C27_StoredTokenSubject ==
  /\ \A u \in users :
       u.refreshToken # NullToken
         => u.refreshToken.sub = u.id /\ u.refreshToken.type = "refresh"
  /\ \A u, v \in users :
       (u.refreshToken = v.refreshToken /\ u.refreshToken # NullToken) => u = v
  /\ \A p \in Procs : loc[p].reason # "SubjectMismatch"

\* two rows exist, and a refresh call that presented the token stored in one
\* of them has passed the subject check
C27_Witness ==
  /\ Cardinality(users) = 2
  /\ \E p \in Procs : \E u \in users :
       /\ pc[p] = "refreshAccessTokenSave" /\ loc[p].pending.kind = "ok"
       /\ u.refreshToken = loc[p].token /\ u.id = loc[p].token.sub

\* C28: a refresh call that was in flight when a logout of its user
\* completed, no login having succeeded since, returns no pair and leaves the
\* user's refreshToken null.
C28_LogoutBeatsRefreshInFlight ==
  [][\A p, q \in Procs :
       (/\ p # q /\ Done(q, "logout") /\ result[q].kind = "ok"
        /\ Ends(p) /\ loc'[p].op = "refresh" /\ InFlight(p)
        /\ loc[q].userId = loc[p].user.id)
         => /\ result'[p].kind # "ok"
            /\ \A u \in RowOf(users', loc[q].userId) : u.refreshToken = NullToken]_vars

\* C29: no step of a login or refresh call changes the id, email, name or
\* password of a row.
C29_LoginRefreshKeepProfile ==
  [][\A p \in Procs :
       (Steps(p) /\ loc'[p].op \in {"login", "refresh"})
         => ProfilesOf(users') = ProfilesOf(users)]_vars

\* C24: the step of a login or refresh call at which the store write fails
\* ends the call (no retry) with InternalServerError and no token, and writes
\* no row; no earlier step of the call has written a row either.
C24_StoreFailureSurfaced ==
  [][\A p \in Procs :
       (Steps(p) /\ loc'[p].op \in {"login", "refresh"})
         => /\ loc'[p].reason = "StoreFailure"
                 => /\ pc'[p] = "done"
                    /\ result'[p].kind = "InternalServerError"
                    /\ result'[p].access_token = NullToken
                    /\ result'[p].refresh_token = NullToken
                    /\ users' = users /\ issued' = issued
            /\ ~Ends(p) => users' = users]_vars

\* a login and a refresh have failed on the write of the store, the refresh
\* while a row stored the token it presented
C24_Witness ==
  \E p, q \in Procs :
    /\ Done(p, "login") /\ Done(q, "refresh")
    /\ loc[p].reason = "StoreFailure" /\ loc[q].reason = "StoreFailure"
    /\ result[p].kind = "InternalServerError" /\ result[q].kind = "InternalServerError"
    /\ findByRefreshToken(loc[q].token) # {}

\* C26: with a refresh duration in days, the expiry stored with a refresh
\* token is, to the second, the signed expiry of the token: not earlier, and
\* not a second or more later.
C26_StoredExpiryIsSignedExpiry ==
  \A u \in users :
    (u.refreshToken # NullToken /\ includes(secrets.refreshExpiresIn, "d"))
      => /\ u.refreshTokenExpiresAt >= u.refreshToken.exp * TicksPerSec
         /\ Sec(u.refreshTokenExpiresAt) <= u.refreshToken.exp

\* C30: a request to getProfile, updateProfile or logout passes the guard
\* only if a row with the id of the token's subject has the email of the
\* token's email claim, so that a token issued for an email the row no longer
\* has is rejected; and an updateProfile call that succeeds returns no token
\* and issues none.
C30_GuardRequiresCurrentEmail ==
  [][\A p \in Procs :
       /\ (/\ Starts(p) /\ loc'[p].op \in {"getProfile", "logout", "updateProfile"}
           /\ ~(pc'[p] = "done" /\ result'[p].kind = "Unauthorized"))
            => \E u \in users : u.id = loc'[p].token.sub /\ u.email = loc'[p].token.email
       /\ (Ends(p) /\ loc'[p].op = "updateProfile" /\ result'[p].kind = "ok")
            => /\ result'[p].access_token = NullToken
               /\ result'[p].refresh_token = NullToken
               /\ issued' = issued]_vars

\* an updateProfile call has changed an email, and a logout that presented an
\* unexpired access token issued for the former email has been rejected
C30_Witness ==
  \E p \in Procs :
    /\ Done(p, "logout") /\ result[p].message = "Token email mismatch"
    /\ loc[p].token \in issued.access /\ Sec(now) < loc[p].token.exp
    /\ \E u \in users : u.id = loc[p].token.sub /\ u.email = EmailCd

\* ------------------------------------------------------------ C31..C36
\* C31: the answer of the login endpoint to a login that failed in
\* AuthService.login has a failure status and clears both cookies, and an
\* answer that sets the cookies is the answer to a login that succeeded.
C31_LoginFailurePropagated ==
  \A m \in inbox :
    m.action = "login"
      => /\ m.served # "ok"
              => ~Resolves(m.response) /\ m.response.setCookie.op = "clear"
         /\ m.response.setCookie.op = "set" => m.served = "ok"

\* the step is the one at which the answer m reaches the browser
Settling(m) == m \in inbox /\ inbox' = inbox \ {m}

\* C32: isAuthenticated turns true only when an answer reaches the browser
\* that set the session cookies or that the guard gave to a request it let
\* through.
C32_AuthenticatedBySession ==
  [][(~store.isAuthenticated /\ store'.isAuthenticated)
       => \E m \in inbox :
            /\ Settling(m) /\ Resolves(m.response)
            /\ m.response.setCookie.op = "set" \/ m.action = "getProfile"]_vars

\* C33: the store has a user only while isAuthenticated is true.
C33_UserImpliesAuthenticated ==
  store.user # NoUserOut => store.isAuthenticated

\* C34: isLoading is true exactly while the promise of some store action is
\* pending.
C34_LoadingWhileUnderWay ==
  store.isLoading <=> UnderWay > 0

\* C35: when the answer to its request arrives, resolved or not, logout
\* leaves the store without user, not authenticated, not loading and without
\* error, and its promise is fulfilled; and a logout request that the server
\* fails changes no row, so a refresh token that refresh accepted before the
\* request is accepted after it.
C35_LogoutClearsStore ==
  [][/\ \A m \in inbox :
          (Settling(m) /\ m.action = "logout")
            => /\ store' = [user |-> NoUserOut, isAuthenticated |-> FALSE,
                            isLoading |-> FALSE, error |-> NoError]
               /\ promise' = [action |-> "logout", state |-> "fulfilled"]
     /\ \A p \in Procs :
          (Steps(p) /\ loc'[p].op = "logout"
           /\ (pc'[p] = "done" => result'[p].kind # "ok"))
            => /\ users' = users
               /\ \A u \in users :
                    RefreshAccepts(users, u.refreshToken, now)
                      => RefreshAccepts(users', u.refreshToken, now')]_vars

\* a logout whose request the guard refused, the email of the user having
\* changed since the login, has cleared the store, and refresh accepts the
\* refresh token of the cookie the browser still holds
C35_Witness ==
  /\ promise = [action |-> "logout", state |-> "fulfilled"]
  /\ \E p \in Procs :
       /\ Done(p, "logout") /\ result[p].message = "Token email mismatch"
       /\ loc[p].token = cookies.access_token
  /\ inbox = {}
  /\ store.user = NoUserOut /\ ~store.isAuthenticated
  /\ RefreshAccepts(users, cookies.refresh_token, now)

\* C36: when the answer to a failed request arrives, fetchProfile clears user
\* and isAuthenticated, while login, register and updateProfile leave both as
\* they are and set isLoading false and the error; each promise is rejected.
\* The first lines of every action leave user and isAuthenticated as they are.
C36_FailureFrames ==
  [][/\ \A m \in inbox :
          (Settling(m) /\ ~Resolves(m.response) /\ m.action # "logout")
            => /\ promise'.state = "rejected"
               /\ ~store'.isLoading /\ store'.error = ErrorMessage(m.response)
               /\ IF m.action = "getProfile"
                  THEN store'.user = NoUserOut /\ ~store'.isAuthenticated
                  ELSE /\ store'.user = store.user
                       /\ store'.isAuthenticated = store.isAuthenticated
     /\ (\E p \in Procs : Starts(p))
          => /\ store'.user = store.user
             /\ store'.isAuthenticated = store.isAuthenticated]_vars

\* an updateProfile and a fetchProfile of a signed-in browser have failed:
\* after the first the store still had its user, after the second none
C36_Witness ==
  /\ promise = [action |-> "getProfile", state |-> "rejected"]
  /\ store.user = NoUserOut /\ ~store.isAuthenticated /\ store.error # NoError
  /\ cookies.access_token # NullToken
  /\ \E u \in users : u.id = cookies.access_token.sub /\ u.email # cookies.access_token.email

====
